---- MODULE Spec2Model ----
(***************************************************************************)
(* Post-composition forms of linkedin-zen-post: the two revisions of the   *)
(* LinkedIn page (Index) and the Instagram form (InstagramForm).           *)
(*                                                                         *)
(* A string is a sequence of one-character strings, so that trimming and   *)
(* emptiness are computed as the code computes them.  A JavaScript object  *)
(* is a record whose every value is optional: <<>> stands for a key that   *)
(* is missing or holds undefined, <<v>> for a key that holds v.            *)
(***************************************************************************)
EXTENDS Integers, Sequences, FiniteSets, TLC

VARIABLES form, webhookUrl, businessId,
          postType, caption, imageUrl, videoUrl, coverImageUrl, articleUrl,
          carouselUrls, isSubmitting, inflight, toast, run,
          apiKey, isRewriting, isGenerating, pending,
          raw, out, again, stage,
          uploads, searchQuery, isSearching, searches, pexelsKey,
          pexelsResults

vars == <<form, webhookUrl, businessId,
          postType, caption, imageUrl, videoUrl, coverImageUrl, articleUrl,
          carouselUrls, isSubmitting, inflight, toast, run,
          apiKey, isRewriting, isGenerating, pending,
          raw, out, again, stage,
          uploads, searchQuery, isSearching, searches, pexelsKey,
          pexelsResults>>

\* the state of a TextEditor: its API key, its two flags and its requests to
\* the chat-completion API that have not settled
editor == <<apiKey, isRewriting, isGenerating, pending>>

\* normalizeResponse at work: its argument, its result, the result of
\* normalizing that result, and how far this has gone
normalizer == <<raw, out, again, stage>>

\* the media pickers: the carousel selections whose uploads have not
\* finished, and the image search of an ImageSection with its query, its
\* flag, its requests that have not settled, its API key and its results
media == <<uploads, searchQuery, isSearching, searches, pexelsKey,
           pexelsResults>>

config == <<form, webhookUrl, businessId>>

PostState == <<postType, caption, imageUrl, videoUrl, coverImageUrl,
               articleUrl, carouselUrls>>

-----------------------------------------------------------------------------
(* Bounds *)

MaxInFlight == 2

MaxCarousel == 2

-----------------------------------------------------------------------------
(* Strings *)

Whitespace == {" ", "\t", "\n", "\r"}

RECURSIVE trimStart(_)
trimStart(s) ==
  IF s # <<>> /\ Head(s) \in Whitespace THEN trimStart(Tail(s)) ELSE s

RECURSIVE trimEnd(_)
trimEnd(s) ==
  IF s # <<>> /\ s[Len(s)] \in Whitespace
  THEN trimEnd(SubSeq(s, 1, Len(s) - 1))
  ELSE s

\* s without its longest suffix made of characters of set
RECURSIVE trimEndOf(_, _)
trimEndOf(s, set) ==
  IF s # <<>> /\ s[Len(s)] \in set
  THEN trimEndOf(SubSeq(s, 1, Len(s) - 1), set)
  ELSE s

trim(s) == trimEnd(trimStart(s))

\* JavaScript truthiness of a string: !!s
Truthy(s) == s # <<>>

\* s || undefined
OrUndefined(s) == IF Truthy(s) THEN <<s>> ELSE <<>>

\* JSON.stringify of an object: keys whose value is undefined are left out
JSONstringify(p) ==
  [k \in {key \in DOMAIN p : Len(p[key]) > 0} |-> p[k][1]]

-----------------------------------------------------------------------------
(* Inputs *)

Forms == {"IndexA", "IndexB", "Instagram"}

\* what can be typed into the caption textarea
CaptionInputs == {<<>>, <<" ">>, <<"a">>}

\* what can be typed into a raw URL input
UrlInputs == {<<>>, <<" ">>, <<"u">>}

\* what ImageSection hands to onImageUrlChange: a non-blank URL, or "" on removal
ImageSectionUrls == {<<>>, <<"u">>}

\* URLs returned by the asset host for uploaded carousel files
UploadedUrls == {<<"u">>, <<"v">>}

WebhookInputs == {<<>>, <<"w">>}

BusinessIdInputs == {<<>>, <<"b">>}

-----------------------------------------------------------------------------
(* Post types and defaults *)

IndexAPostTypes == {"text", "article", "article-image", "image", "video"}

IndexBPostTypes == {"text", "article", "image"}

IGPostType == {"image", "story_image", "story_video", "reel", "carousel"}

PostTypesOf(f) ==
  CASE f = "IndexA" -> IndexAPostTypes
    [] f = "IndexB" -> IndexBPostTypes
    [] f = "Instagram" -> IGPostType

DefaultPostType(f) == IF f = "Instagram" THEN "image" ELSE "text"

-----------------------------------------------------------------------------
(* Validation *)

\* InstagramForm: const canSubmit = useMemo(...)
canSubmit ==
  CASE postType = "image" -> Truthy(imageUrl) /\ Truthy(trim(caption))
    [] postType = "story_image" -> Truthy(imageUrl)
    [] postType = "story_video" -> Truthy(videoUrl)
    [] postType = "reel" -> Truthy(videoUrl) /\ Truthy(trim(caption))
    [] postType = "carousel" ->
         Len(carouselUrls) >= 2 /\ Truthy(trim(caption))
    [] OTHER -> FALSE

\* InstagramSubmitDisabled without the isSubmitting flag
InstagramSubmitDisabledNoFlag == ~canSubmit

\* the disabled attribute of the submit button of InstagramForm
InstagramSubmitDisabled == isSubmitting \/ ~canSubmit

\* the disabled attribute of the submit button of both Index revisions
IndexSubmitDisabled == isSubmitting

SubmitDisabled ==
  IF form = "Instagram" THEN InstagramSubmitDisabled ELSE IndexSubmitDisabled

\* The checks at the head of handleSubmit: each gives the title of the toast
\* of the first check that fails, "" when every check passes.

\* InstagramConfigFailure without the check of the business-account id
InstagramConfigFailureWebhookOnly ==
  IF ~Truthy(webhookUrl) THEN "Missing webhook" ELSE ""

InstagramConfigFailure ==
  IF ~Truthy(webhookUrl) THEN "Missing webhook"
  ELSE IF ~Truthy(businessId) THEN "Missing Instagram Business ID"
  ELSE ""

IndexConfigFailure ==
  IF ~Truthy(webhookUrl) THEN "Missing Configuration" ELSE ""

ConfigFailure ==
  IF form = "Instagram" THEN InstagramConfigFailure ELSE IndexConfigFailure

\* InstagramValidationFailure leaving the check to the button
InstagramValidationFailureNone == ""

InstagramValidationFailure == IF ~canSubmit THEN "Incomplete" ELSE ""

IndexAValidationFailure ==
  IF ~Truthy(trim(caption)) THEN "Missing Content" ELSE ""

IndexBValidationFailure ==
  IF ~Truthy(trim(caption)) THEN "Missing Content"
  ELSE IF postType = "image" /\ ~Truthy(trim(imageUrl))
       THEN "Missing Image URL"
  ELSE IF postType = "article" /\ ~Truthy(trim(articleUrl))
       THEN "Missing Article URL"
  ELSE ""

ValidationFailure ==
  CASE form = "Instagram" -> InstagramValidationFailure
    [] form = "IndexA" -> IndexAValidationFailure
    [] form = "IndexB" -> IndexBValidationFailure

-----------------------------------------------------------------------------
(* Payloads *)

\* InstagramPayload taking image_url from whatever imageUrl holds
InstagramPayloadAnyImage ==
  [node_type |-> <<"instagram">>,
   node |-> <<businessId>>,
   post_type |-> <<postType>>,
   text |-> <<caption>>,
   image_url |-> OrUndefined(imageUrl),
   video_url |-> IF postType = "story_video" \/ postType = "reel"
                 THEN <<videoUrl>> ELSE <<>>,
   cover_image_url |-> IF postType = "reel"
                       THEN OrUndefined(coverImageUrl) ELSE <<>>,
   image_urls |-> IF postType = "carousel" THEN <<carouselUrls>> ELSE <<>>]

\* InstagramPayload taking cover_image_url whatever the post type is
InstagramPayloadAnyCover ==
  [node_type |-> <<"instagram">>,
   node |-> <<businessId>>,
   post_type |-> <<postType>>,
   text |-> <<caption>>,
   image_url |-> IF postType = "image" \/ postType = "story_image"
                 THEN <<imageUrl>> ELSE <<>>,
   video_url |-> IF postType = "story_video" \/ postType = "reel"
                 THEN <<videoUrl>> ELSE <<>>,
   cover_image_url |-> OrUndefined(coverImageUrl),
   image_urls |-> IF postType = "carousel" THEN <<carouselUrls>> ELSE <<>>]

InstagramPayload ==
  [node_type |-> <<"instagram">>,
   node |-> <<businessId>>,
   post_type |-> <<postType>>,
   text |-> IF postType \in {"image", "reel", "carousel"}
               \/ postType \in {"story_image", "story_video"}
            THEN <<caption>> ELSE <<>>,
   image_url |-> IF postType = "image" \/ postType = "story_image"
                 THEN <<imageUrl>> ELSE <<>>,
   video_url |-> IF postType = "story_video" \/ postType = "reel"
                 THEN <<videoUrl>> ELSE <<>>,
   cover_image_url |-> IF postType = "reel"
                       THEN OrUndefined(coverImageUrl) ELSE <<>>,
   image_urls |-> IF postType = "carousel" THEN <<carouselUrls>> ELSE <<>>]

IndexAPayload ==
  [post_type |-> <<postType>>,
   text |-> <<caption>>,
   image_url |-> OrUndefined(imageUrl),
   video_url |-> OrUndefined(videoUrl),
   timestamp |-> <<"now">>]

IndexBPayload ==
  [node_type |-> <<"linkedin">>,
   post_type |-> <<postType>>,
   text |-> <<caption>>,
   image_url |-> IF postType = "image" THEN <<imageUrl>> ELSE <<>>,
   article_url |-> IF postType = "article" THEN <<articleUrl>> ELSE <<>>]

\* the body handed to fetch
RequestBody ==
  CASE form = "Instagram" -> JSONstringify(InstagramPayload)
    [] form = "IndexA" -> JSONstringify(IndexAPayload)
    [] form = "IndexB" -> JSONstringify(IndexBPayload)

-----------------------------------------------------------------------------
(* Pipeline phases passed by one call of handleSubmit *)

RunRejected == <<"idle", "validating", "idle">>

RunDispatching == <<"idle", "validating", "building", "dispatching">>

RunSucceeded == RunDispatching \o <<"succeeded", "idle">>

RunFailed == RunDispatching \o <<"failed", "idle">>

-----------------------------------------------------------------------------
(* Initial state: a freshly mounted form *)

Init ==
  /\ form \in Forms
  /\ webhookUrl \in WebhookInputs
  /\ businessId \in (IF form = "Instagram" THEN BusinessIdInputs ELSE {<<>>})
  /\ postType = DefaultPostType(form)
  /\ caption = <<>>
  /\ imageUrl = <<>>
  /\ videoUrl = <<>>
  /\ coverImageUrl = <<>>
  /\ articleUrl = <<>>
  /\ carouselUrls = <<>>
  /\ isSubmitting = FALSE
  /\ inflight = <<>>
  /\ toast = ""
  /\ run = <<"idle">>
  /\ apiKey = <<>>
  /\ isRewriting = FALSE
  /\ isGenerating = FALSE
  /\ pending = <<>>
  /\ raw = <<>>
  /\ out = <<>>
  /\ again = <<>>
  /\ stage = "none"
  /\ uploads = <<>>
  /\ searchQuery = <<>>
  /\ isSearching = FALSE
  /\ searches = <<>>
  /\ pexelsKey = <<>>
  /\ pexelsResults = <<>>

-----------------------------------------------------------------------------
(* Edits *)

\* setPostType on a form whose requests read the post type when they are
\* sent over the wire, not when handleSubmit builds them
setPostTypeLive(t) ==
  /\ t \in PostTypesOf(form)
  /\ postType' = t
  /\ inflight' = [k \in 1..Len(inflight) |->
                   [inflight[k] EXCEPT !.post_type = t]]
  /\ UNCHANGED <<config, caption, imageUrl, videoUrl, coverImageUrl,
                 articleUrl, carouselUrls, isSubmitting, toast, run>>
  /\ UNCHANGED <<editor, normalizer, media>>

setPostType(t) ==
  /\ t \in PostTypesOf(form)
  /\ postType' = t
  /\ UNCHANGED <<config, caption, imageUrl, videoUrl, coverImageUrl,
                 articleUrl, carouselUrls, isSubmitting, inflight, toast, run>>
  /\ UNCHANGED <<editor, normalizer, media>>

\* setCaption on a textarea that is disabled while submitting
setCaptionWhenIdle(v) ==
  /\ ~isSubmitting
  /\ caption' = v
  /\ UNCHANGED <<config, postType, imageUrl, videoUrl, coverImageUrl,
                 articleUrl, carouselUrls, isSubmitting, inflight, toast, run>>
  /\ UNCHANGED <<editor, normalizer, media>>

setCaption(v) ==
  /\ caption' = v
  /\ UNCHANGED <<config, postType, imageUrl, videoUrl, coverImageUrl,
                 articleUrl, carouselUrls, isSubmitting, inflight, toast, run>>
  /\ UNCHANGED <<editor, normalizer, media>>

\* the ImageSection for imageUrl is rendered
ImageSectionShown ==
  CASE form = "Instagram" -> postType = "image" \/ postType = "story_image"
    [] form = "IndexA" -> postType = "image" \/ postType = "article-image"
    [] form = "IndexB" -> postType = "image"

setImageUrl(v) ==
  /\ ImageSectionShown
  /\ imageUrl' = v
  /\ UNCHANGED <<config, postType, caption, videoUrl, coverImageUrl,
                 articleUrl, carouselUrls, isSubmitting, inflight, toast, run>>
  /\ UNCHANGED <<editor, normalizer, media>>

\* the video URL input is rendered
VideoInputShown ==
  CASE form = "Instagram" -> postType = "story_video" \/ postType = "reel"
    [] form = "IndexA" -> postType = "video"
    [] form = "IndexB" -> FALSE

setVideoUrl(v) ==
  /\ VideoInputShown
  /\ videoUrl' = v
  /\ UNCHANGED <<config, postType, caption, imageUrl, coverImageUrl,
                 articleUrl, carouselUrls, isSubmitting, inflight, toast, run>>
  /\ UNCHANGED <<editor, normalizer, media>>

setCoverImageUrl(v) ==
  /\ form = "Instagram" /\ postType = "reel"
  /\ coverImageUrl' = v
  /\ UNCHANGED <<config, postType, caption, imageUrl, videoUrl,
                 articleUrl, carouselUrls, isSubmitting, inflight, toast, run>>
  /\ UNCHANGED <<editor, normalizer, media>>

setArticleUrl(v) ==
  /\ form = "IndexB" /\ postType = "article"
  /\ articleUrl' = v
  /\ UNCHANGED <<config, postType, caption, imageUrl, videoUrl,
                 coverImageUrl, carouselUrls, isSubmitting, inflight, toast,
                 run>>
  /\ UNCHANGED <<editor, normalizer, media>>

\* handleCarouselFiles on a selection whose uploads complete before the next
\* event: urls are the uploads that succeeded, in selection order
handleCarouselFiles(urls) ==
  /\ form = "Instagram" /\ postType = "carousel"
  /\ Len(carouselUrls) + Len(urls) <= MaxCarousel
  /\ carouselUrls' = carouselUrls \o urls
  /\ toast' = "Images uploaded"
  /\ UNCHANGED <<config, postType, caption, imageUrl, videoUrl,
                 coverImageUrl, articleUrl, isSubmitting, inflight, run>>
  /\ UNCHANGED <<editor, normalizer, media>>

\* s.filter((_, i) => i !== idx), and the removal of a settled request
RemoveAt(s, i) == [j \in 1..(Len(s) - 1) |-> IF j < i THEN s[j] ELSE s[j + 1]]

removeCarouselImage(idx) ==
  /\ form = "Instagram" /\ postType = "carousel"
  /\ idx \in 1..Len(carouselUrls)
  /\ carouselUrls' = RemoveAt(carouselUrls, idx)
  /\ UNCHANGED <<config, postType, caption, imageUrl, videoUrl,
                 coverImageUrl, articleUrl, isSubmitting, inflight, toast,
                 run>>
  /\ UNCHANGED <<editor, normalizer, media>>

\* the Clear All button
clearCarousel ==
  /\ form = "Instagram" /\ postType = "carousel"
  /\ carouselUrls' = <<>>
  /\ UNCHANGED <<config, postType, caption, imageUrl, videoUrl,
                 coverImageUrl, articleUrl, isSubmitting, inflight, toast,
                 run>>
  /\ UNCHANGED <<editor, normalizer, media>>

\* SettingsDialog.handleSave of the first revision: the webhook URL lives in
\* localStorage and is read again by every handleSubmit
handleSave(url) ==
  /\ form = "IndexA"
  /\ webhookUrl' = url
  /\ toast' = "Settings Saved"
  /\ UNCHANGED <<form, businessId, PostState, isSubmitting, inflight, run>>
  /\ UNCHANGED <<editor, normalizer, media>>

-----------------------------------------------------------------------------
(* Submission *)

\* handleSubmit without setIsSubmitting(true)
handleSubmitNoFlag ==
  IF ConfigFailure # ""
  THEN /\ toast' = ConfigFailure
       /\ run' = RunRejected
       /\ UNCHANGED <<config, PostState, isSubmitting, inflight>>
  ELSE IF ValidationFailure # ""
  THEN /\ toast' = ValidationFailure
       /\ run' = RunRejected
       /\ UNCHANGED <<config, PostState, isSubmitting, inflight>>
  ELSE /\ inflight' = Append(inflight, RequestBody)
       /\ run' = RunDispatching
       /\ UNCHANGED <<config, PostState, isSubmitting, toast>>

\* handleSubmit up to its first await: the configuration checks, the field
\* checks, setIsSubmitting(true), the payload and the call of fetch
handleSubmit ==
  IF ConfigFailure # ""
  THEN /\ toast' = ConfigFailure
       /\ run' = RunRejected
       /\ UNCHANGED <<config, PostState, isSubmitting, inflight>>
  ELSE IF ValidationFailure # ""
  THEN /\ toast' = ValidationFailure
       /\ run' = RunRejected
       /\ UNCHANGED <<config, PostState, isSubmitting, inflight>>
  ELSE /\ isSubmitting' = TRUE
       /\ inflight' = Append(inflight, RequestBody)
       /\ run' = RunDispatching
       /\ UNCHANGED <<config, PostState, toast>>

\* a click on the submit button
ClickSubmit ==
  /\ ~SubmitDisabled
  /\ Len(inflight) < MaxInFlight
  /\ handleSubmit
  /\ UNCHANGED <<editor, normalizer, media>>

\* handleSubmit called as a function, one call awaited before the next
CallSubmit ==
  /\ inflight = <<>>
  /\ handleSubmit
  /\ UNCHANGED <<editor, normalizer, media>>

\* InstagramReset that leaves the post type selected
InstagramResetKeepsType ==
  /\ caption' = <<>>
  /\ imageUrl' = <<>>
  /\ videoUrl' = <<>>
  /\ coverImageUrl' = <<>>
  /\ carouselUrls' = <<>>
  /\ postType' = postType
  /\ UNCHANGED articleUrl

\* the state updates after a 2xx response, InstagramForm
InstagramReset ==
  /\ caption' = <<>>
  /\ imageUrl' = <<>>
  /\ videoUrl' = <<>>
  /\ coverImageUrl' = <<>>
  /\ carouselUrls' = <<>>
  /\ postType' = "image"
  /\ UNCHANGED articleUrl

\* the state updates after a 2xx response, first Index revision
IndexAReset ==
  /\ caption' = <<>>
  /\ imageUrl' = <<>>
  /\ videoUrl' = <<>>
  /\ postType' = "text"
  /\ UNCHANGED <<coverImageUrl, articleUrl, carouselUrls>>

\* the state updates after a 2xx response, second Index revision
IndexBReset ==
  /\ caption' = <<>>
  /\ imageUrl' = <<>>
  /\ articleUrl' = <<>>
  /\ postType' = "text"
  /\ UNCHANGED <<videoUrl, coverImageUrl, carouselUrls>>

ResetForm ==
  CASE form = "Instagram" -> InstagramReset
    [] form = "IndexA" -> IndexAReset
    [] form = "IndexB" -> IndexBReset

\* KeepForm that clears the caption as the success path does
KeepFormClearsCaption ==
  /\ caption' = <<>>
  /\ UNCHANGED <<postType, imageUrl, videoUrl, coverImageUrl, articleUrl,
                 carouselUrls>>

\* the state updates of the catch block
KeepForm == UNCHANGED PostState

\* request i completes with response.ok: the rest of the try block, finally
FetchOk(i) ==
  /\ i \in 1..Len(inflight)
  /\ inflight' = RemoveAt(inflight, i)
  /\ toast' = "Success!"
  /\ ResetForm
  /\ isSubmitting' = FALSE
  /\ run' = run \o <<"succeeded", "idle">>
  /\ UNCHANGED config
  /\ UNCHANGED <<editor, normalizer, media>>

\* FetchFails that sends the request again
FetchFailsRetries(i, outcome) ==
  /\ UNCHANGED <<editor, normalizer, media>>
  /\ i \in 1..Len(inflight)
  /\ outcome \in {"non2xx", "rejected"}
  /\ inflight' = Append(RemoveAt(inflight, i), inflight[i])
  /\ toast' = "Error"
  /\ KeepForm
  /\ isSubmitting' = TRUE
  /\ run' = run \o <<"failed", "dispatching">>
  /\ UNCHANGED config

\* FetchFails without the finally block
FetchFailsKeepsFlag(i, outcome) ==
  /\ UNCHANGED <<editor, normalizer, media>>
  /\ i \in 1..Len(inflight)
  /\ outcome \in {"non2xx", "rejected"}
  /\ inflight' = RemoveAt(inflight, i)
  /\ toast' = "Error"
  /\ KeepForm
  /\ isSubmitting' = isSubmitting
  /\ run' = run \o <<"failed", "idle">>
  /\ UNCHANGED config

\* request i completes with a non-2xx status, or fetch rejects: catch, finally
FetchFails(i, outcome) ==
  /\ i \in 1..Len(inflight)
  /\ outcome \in {"non2xx", "rejected"}
  /\ inflight' = RemoveAt(inflight, i)
  /\ toast' = "Error"
  /\ KeepForm
  /\ isSubmitting' = FALSE
  /\ run' = run \o <<"failed", "idle">>
  /\ UNCHANGED config
  /\ UNCHANGED <<editor, normalizer, media>>

-----------------------------------------------------------------------------
(* Specifications *)

UploadBatches ==
  {<<>>} \cup {<<u>> : u \in UploadedUrls}
         \cup {<<u, v>> : u \in UploadedUrls, v \in UploadedUrls}

Edit ==
  \/ \E t \in IndexAPostTypes \cup IndexBPostTypes \cup IGPostType :
       setPostType(t)
  \/ \E v \in CaptionInputs : setCaption(v)
  \/ \E v \in ImageSectionUrls : setImageUrl(v)
  \/ \E v \in UrlInputs : setVideoUrl(v)
  \/ \E v \in ImageSectionUrls : setCoverImageUrl(v)
  \/ \E v \in UrlInputs : setArticleUrl(v)
  \/ \E urls \in UploadBatches : handleCarouselFiles(urls)
  \/ \E idx \in 1..(MaxCarousel + 1) : removeCarouselImage(idx)
  \/ clearCarousel
  \/ \E url \in WebhookInputs : handleSave(url)

Complete ==
  \/ \E i \in 1..MaxInFlight : FetchOk(i)
  \/ \E i \in 1..MaxInFlight, o \in {"non2xx", "rejected"} : FetchFails(i, o)

Next == Edit \/ ClickSubmit \/ Complete

Spec == Init /\ [][Next]_vars

\* every request to the webhook settles
SpecLive == Spec /\ WF_vars(Complete)

\* the forms with handleSubmit also called directly, past the button
NextCall == Next \/ CallSubmit

SpecCall == Init /\ [][NextCall]_vars

-----------------------------------------------------------------------------
(* normalizeResponse *)

MaxTokens == 3

Digits == {"0", "1", "2", "3", "4", "5", "6", "7", "8", "9"}

\* the characters of the class ["'`]; the grave accent is written "grave"
Quotes == {"\"", "'", "grave"}

\* the characters "." of a regular expression does not match
LineTerminators == {"\n", "\r"}

\* the letter c in lower case, as the flag i compares
Lower(c) ==
  CASE c = "A" -> "a" [] c = "B" -> "b" [] c = "C" -> "c" [] c = "D" -> "d"
    [] c = "E" -> "e" [] c = "F" -> "f" [] c = "G" -> "g" [] c = "H" -> "h"
    [] c = "I" -> "i" [] c = "J" -> "j" [] c = "K" -> "k" [] c = "L" -> "l"
    [] c = "M" -> "m" [] c = "N" -> "n" [] c = "O" -> "o" [] c = "P" -> "p"
    [] c = "Q" -> "q" [] c = "R" -> "r" [] c = "S" -> "s" [] c = "T" -> "t"
    [] c = "U" -> "u" [] c = "V" -> "v" [] c = "W" -> "w" [] c = "X" -> "x"
    [] c = "Y" -> "y" [] c = "Z" -> "z" [] OTHER -> c

\* s from index i to its end
From(s, i) == SubSeq(s, i, Len(s))

\* the character of s at index i is in set
At(s, i, set) == i \in 1..Len(s) /\ s[i] \in set

\* the lower-case word w stands in s at index i, letter case ignored
WordAt(s, i, w) ==
  /\ i >= 1
  /\ i + Len(w) - 1 <= Len(s)
  /\ \A k \in 1..Len(w) : Lower(s[i + k - 1]) = w[k]

\* the first index from i on whose character is not in set (a greedy set*)
RECURSIVE Skip(_, _, _)
Skip(s, i, set) == IF At(s, i, set) THEN Skip(s, i + 1, set) ELSE i

\* /Option\s*\d+\s*:/i at index i: the index after the match, 0 without one
LabelEnd(s, i) ==
  LET d == Skip(s, i + 6, Whitespace)
      e == Skip(s, d, Digits)
      c == Skip(s, e, Whitespace)
  IN IF WordAt(s, i, <<"o", "p", "t", "i", "o", "n">>) /\ e > d
        /\ At(s, c, {":"})
     THEN c + 1 ELSE 0

\* BoldLabelEnd that finds no label
BoldLabelEndNever(s, i) == 0

\* /\*\*?Option\s*\d+\s*:\*\*?/i at index i: the index after the match, 0
\* without one
BoldLabelEnd(s, i) ==
  LET o == IF At(s, i + 1, {"*"}) THEN i + 2 ELSE i + 1
      c == LabelEnd(s, o)
  IN IF At(s, i, {"*"}) /\ c # 0 /\ At(s, c, {"*"})
     THEN (IF At(s, c + 1, {"*"}) THEN c + 2 ELSE c + 1)
     ELSE 0

\* text.replace(/\*\*?Option\s*\d+\s*:\*\*?/gi, ""), from index i on
RECURSIVE StripBoldLabels(_, _)
StripBoldLabels(s, i) ==
  IF i > Len(s) THEN <<>>
  ELSE IF BoldLabelEnd(s, i) # 0 THEN StripBoldLabels(s, BoldLabelEnd(s, i))
  ELSE <<s[i]>> \o StripBoldLabels(s, i + 1)

\* text.replace(/Option\s*\d+\s*:/gi, ""), from index i on
RECURSIVE StripLabels(_, _)
StripLabels(s, i) ==
  IF i > Len(s) THEN <<>>
  ELSE IF LabelEnd(s, i) # 0 THEN StripLabels(s, LabelEnd(s, i))
  ELSE <<s[i]>> \o StripLabels(s, i + 1)

\* the alternatives of the preamble expression at the start of s, in their
\* order: the index after the first that matches, 0 when none does
PreambleEnd(s) ==
  LET w == Skip(s, 5, Whitespace)
      Opt(i, set) == IF At(s, i, set) THEN i + 1 ELSE i
  IN CASE WordAt(s, 1, <<"h", "e", "r", "e">>) /\ w > 5
            /\ (WordAt(s, w, <<"i", "t">>) \/ WordAt(s, w, <<"i", "s">>))
            -> w + 2
       [] WordAt(s, 1, <<"c", "h", "o", "o", "s", "e">>)
            -> Skip(s, 7, {s[k] : k \in 1..Len(s)} \ LineTerminators)
       [] WordAt(s, 1, <<"s", "e", "l", "e", "c", "t", "e", "d">>)
            -> Skip(s, 9, {s[k] : k \in 1..Len(s)} \ LineTerminators)
       [] WordAt(s, 1, <<"r", "e", "s", "p", "o", "n", "s", "e">>)
            -> Opt(9, {":"})
       [] WordAt(s, 1, <<"o", "u", "t", "p", "u", "t">>) -> Opt(7, {":"})
       [] WordAt(s, 1, <<"f", "i", "n", "a", "l">>) -> Opt(6, {":"})
       [] WordAt(s, 1, <<"o", "p", "t", "i", "o", "n">>)
            /\ At(s, Opt(7, {"s", "S"}), {":"})
            -> Opt(7, {"s", "S"}) + 1
       [] OTHER -> 0

\* text.replace(/^(?:here\s+(?:it|is)|choose.*|...|options?:)\s*/i, "")
StripPreamble(s) ==
  IF PreambleEnd(s) = 0 THEN s
  ELSE From(s, Skip(s, PreambleEnd(s), Whitespace))

\* text.split(/\n{2,}/) from index i on: cur is the piece being read
RECURSIVE SplitParagraphs(_, _, _)
SplitParagraphs(s, i, cur) ==
  IF i > Len(s) THEN <<cur>>
  ELSE IF At(s, i, {"\n"}) /\ At(s, i + 1, {"\n"})
       THEN <<cur>> \o SplitParagraphs(s, Skip(s, i, {"\n"}), <<>>)
       ELSE SplitParagraphs(s, i + 1, Append(cur, s[i]))

\* text.split(/\n/) from index i on: cur is the piece being read
RECURSIVE SplitLines(_, _, _)
SplitLines(s, i, cur) ==
  IF i > Len(s) THEN <<cur>>
  ELSE IF s[i] = "\n" THEN <<cur>> \o SplitLines(s, i + 1, <<>>)
       ELSE SplitLines(s, i + 1, Append(cur, s[i]))

\* pieces.map((p) => p.trim()).filter(Boolean)
RECURSIVE TrimmedNonEmpty(_)
TrimmedNonEmpty(pieces) ==
  IF pieces = <<>> THEN <<>>
  ELSE IF Truthy(trim(Head(pieces)))
       THEN <<trim(Head(pieces))>> \o TrimmedNonEmpty(Tail(pieces))
       ELSE TrimmedNonEmpty(Tail(pieces))

\* the first non-empty paragraph, the text itself when there is none
FirstParagraph(s) ==
  LET paragraphs == TrimmedNonEmpty(SplitParagraphs(s, 1, <<>>))
  IN IF Len(paragraphs) > 0 THEN paragraphs[1] ELSE s

\* /^(\*|-|\d+\.)\s/.test(l)
IsListLine(l) ==
  \/ At(l, 1, {"*", "-"}) /\ At(l, 2, Whitespace)
  \/ LET e == Skip(l, 1, Digits)
     IN e > 1 /\ At(l, e, {"."}) /\ At(l, e + 1, Whitespace)

\* /^\s*Option\s*\d+/i.test(l)
IsOptionLine(l) ==
  LET o == Skip(l, 1, Whitespace)
  IN WordAt(l, o, <<"o", "p", "t", "i", "o", "n">>)
       /\ At(l, Skip(l, o + 6, Whitespace), Digits)

\* FirstLine without the fallback to lines[0]
FirstLineNoFallback(s) ==
  LET lines == TrimmedNonEmpty(SplitLines(s, 1, <<>>))
      clean == {i \in 1..Len(lines) :
                  ~IsListLine(lines[i]) /\ ~IsOptionLine(lines[i])}
  IN IF clean # {} THEN lines[CHOOSE i \in clean : \A j \in clean : i <= j]
     ELSE <<>>

\* lines.find(...) || lines[0] || ""
FirstLine(s) ==
  LET lines == TrimmedNonEmpty(SplitLines(s, 1, <<>>))
      clean == {i \in 1..Len(lines) :
                  ~IsListLine(lines[i]) /\ ~IsOptionLine(lines[i])}
  IN IF clean # {} THEN lines[CHOOSE i \in clean : \A j \in clean : i <= j]
     ELSE IF Len(lines) > 0 THEN lines[1]
     ELSE <<>>

\* s.replace(/^[q]+|[q]+$/g, "") where q is the class Quotes
StripQuotes(s) ==
  LET t == From(s, Skip(s, 1, Quotes))
  IN trimEndOf(t, Quotes)

\* s.replace(/^\*\s*/, "")
StripStar(s) ==
  IF At(s, 1, {"*"}) THEN From(s, Skip(s, 2, Whitespace)) ELSE s

\* s.replace(/^\d+\.\s*/, "")
StripOrdinal(s) ==
  LET e == Skip(s, 1, Digits)
  IN IF e > 1 /\ At(s, e, {"."}) THEN From(s, Skip(s, e + 1, Whitespace))
     ELSE s

\* FinalStrip without its trim
FinalStripNoTrim(s) == StripOrdinal(StripStar(StripQuotes(s)))

\* the return expression of normalizeResponse
FinalStrip(s) == trim(StripOrdinal(StripStar(StripQuotes(s))))

normalizeResponse(r) ==
  FinalStrip(FirstLine(FirstParagraph(StripPreamble(
    StripLabels(StripBoldLabels(r, 1), 1)))))

\* Inputs of normalizeResponse: what a model may answer, cut into pieces

Tokens ==
  {<<"O", "p", "t", "i", "o", "n", " ", "1", ":">>,
   <<"O", "p", "t", "i", "o", "n", " ">>,
   <<"1", ":">>,
   <<"1", ".", " ">>,
   <<"*">>, <<"\"">>, <<"'">>, <<" ">>, <<"\n">>, <<"\r">>, <<"a">>}

RECURSIVE TokenStrings(_)
TokenStrings(n) ==
  IF n = 0 THEN {<<>>}
  ELSE TokenStrings(n - 1)
         \cup {s \o t : s \in TokenStrings(n - 1), t \in Tokens}

PreambleExample ==
  <<"H", "e", "r", "e", " ", "i", "t", " ", "i", "s", ":", " ", "\"", "S",
    "h", "i", "p", " ", "f", "a", "s", "t", ",", " ", "l", "e", "a", "r",
    "n", " ", "f", "a", "s", "t", "e", "r", ".", "\"">>

PreambleExpected ==
  <<"S", "h", "i", "p", " ", "f", "a", "s", "t", ",", " ", "l", "e", "a",
    "r", "n", " ", "f", "a", "s", "t", "e", "r", ".">>

OptionsExample ==
  <<"*", "*", "O", "p", "t", "i", "o", "n", " ", "1", ":", "*", "*", " ",
    "G", "r", "e", "a", "t", " ", "p", "o", "s", "t", " ", "a", "b", "o",
    "u", "t", " ", "t", "e", "a", "m", "w", "o", "r", "k", ".", "\n", "\n",
    "O", "p", "t", "i", "o", "n", " ", "2", ":", " ", ".", ".", ".">>

OptionsExpected ==
  <<"G", "r", "e", "a", "t", " ", "p", "o", "s", "t", " ", "a", "b", "o",
    "u", "t", " ", "t", "e", "a", "m", "w", "o", "r", "k", ".">>

MaxLines == 2

\* lines a model may answer with: list items, an option, plain text, blank
Lines ==
  {<<"*", " ", "a">>, <<"-", " ", "a">>, <<"1", ".", " ", "a">>,
   <<"O", "p", "t", "i", "o", "n", " ", "2", " ", "a">>,
   <<"b">>, <<" ">>}

\* the texts of one to n lines
RECURSIVE LineTexts(_)
LineTexts(n) ==
  IF n = 1 THEN Lines
  ELSE LineTexts(n - 1)
         \cup {t \o <<"\n">> \o l : t \in LineTexts(n - 1), l \in Lines}

RawInputs ==
  TokenStrings(MaxTokens) \cup LineTexts(MaxLines)
    \cup {PreambleExample, OptionsExample}

\* a normalizer with an input and nothing computed
InitNorm ==
  /\ form = "IndexB"
  /\ webhookUrl = <<>>
  /\ businessId = <<>>
  /\ postType = DefaultPostType(form)
  /\ caption = <<>>
  /\ imageUrl = <<>>
  /\ videoUrl = <<>>
  /\ coverImageUrl = <<>>
  /\ articleUrl = <<>>
  /\ carouselUrls = <<>>
  /\ isSubmitting = FALSE
  /\ inflight = <<>>
  /\ toast = ""
  /\ run = <<"idle">>
  /\ apiKey = <<>>
  /\ isRewriting = FALSE
  /\ isGenerating = FALSE
  /\ pending = <<>>
  /\ raw \in RawInputs
  /\ out = <<>>
  /\ again = <<>>
  /\ stage = "raw"
  /\ uploads = <<>>
  /\ searchQuery = <<>>
  /\ isSearching = FALSE
  /\ searches = <<>>
  /\ pexelsKey = <<>>
  /\ pexelsResults = <<>>

formVars == <<config, PostState, isSubmitting, inflight, toast, run>>

\* normalizeResponse(raw)
Normalize ==
  /\ stage = "raw"
  /\ out' = normalizeResponse(raw)
  /\ stage' = "once"
  /\ UNCHANGED <<formVars, editor, raw, again, media>>

\* normalizeResponse of the result
Renormalize ==
  /\ stage = "once"
  /\ again' = normalizeResponse(out)
  /\ stage' = "twice"
  /\ UNCHANGED <<formVars, editor, raw, out, media>>

NextNorm == Normalize \/ Renormalize

SpecNorm == InitNorm /\ [][NextNorm]_vars

-----------------------------------------------------------------------------
(* TextEditor: the rewrite and generate buttons over the caption *)

\* import.meta.env.VITE_OPENROUTER_API_KEY
ApiKeyInputs == {<<>>, <<"k">>}

\* what data.choices[0]?.message?.content may hold; <<>> is also a missing
\* content, which "|| ''" turns into the empty string
ModelReplies ==
  {<<>>, <<"a">>, <<" ">>, <<"\"", "\"">>, <<"\"", "a", "\"">>,
   <<"O", "p", "t", "i", "o", "n", " ", "1", ":">>}

\* how the fetch of callOpenRouter ends
FetchOutcomes == {"failed", "replied"}

\* an editor over the empty caption of a new form
InitEditor ==
  /\ form \in Forms
  /\ webhookUrl = <<>>
  /\ businessId = <<>>
  /\ postType = DefaultPostType(form)
  /\ caption = <<>>
  /\ imageUrl = <<>>
  /\ videoUrl = <<>>
  /\ coverImageUrl = <<>>
  /\ articleUrl = <<>>
  /\ carouselUrls = <<>>
  /\ isSubmitting = FALSE
  /\ inflight = <<>>
  /\ toast = ""
  /\ run = <<"idle">>
  /\ apiKey \in ApiKeyInputs
  /\ isRewriting = FALSE
  /\ isGenerating = FALSE
  /\ pending = <<>>
  /\ raw = <<>>
  /\ out = <<>>
  /\ again = <<>>
  /\ stage = "none"
  /\ uploads = <<>>
  /\ searchQuery = <<>>
  /\ isSearching = FALSE
  /\ searches = <<>>
  /\ pexelsKey = <<>>
  /\ pexelsResults = <<>>

\* disabled={isRewriting || !value.trim()}
RewriteDisabled == isRewriting \/ ~Truthy(trim(caption))

\* GenerateDisabled of a button that also waits for a rewrite
GenerateDisabledWhileRewriting == isGenerating \/ isRewriting

\* disabled={isGenerating}
GenerateDisabled == isGenerating

\* what callOpenRouter returns once its fetch has ended: <<>> is null,
\* <<text>> the normalized content
callOpenRouter(outcome, content) ==
  IF outcome = "failed" THEN <<>> ELSE <<normalizeResponse(content)>>

\* if (result): the result is neither null nor the empty string
ResultTruthy(result) == result # <<>> /\ Truthy(result[1])

\* handleRewrite up to its await; without an API key callOpenRouter returns
\* null at once and the flag is back to false in the same turn
handleRewrite ==
  /\ IF ~Truthy(trim(caption))
     THEN /\ toast' = "No Content"
          /\ UNCHANGED <<isRewriting, pending>>
     ELSE IF ~Truthy(apiKey)
     THEN /\ toast' = "Missing API Key"
          /\ UNCHANGED <<isRewriting, pending>>
     ELSE /\ isRewriting' = TRUE
          /\ pending' = Append(pending, "rewrite")
          /\ UNCHANGED toast
  /\ UNCHANGED <<config, PostState, isSubmitting, inflight, run>>
  /\ UNCHANGED <<apiKey, isGenerating, normalizer, media>>

ClickRewrite == ~RewriteDisabled /\ handleRewrite

\* handleGenerate up to its await
handleGenerate ==
  /\ IF ~Truthy(apiKey)
     THEN /\ toast' = "Missing API Key"
          /\ UNCHANGED <<isGenerating, pending>>
     ELSE /\ isGenerating' = TRUE
          /\ pending' = Append(pending, "generate")
          /\ UNCHANGED toast
  /\ UNCHANGED <<config, PostState, isSubmitting, inflight, run>>
  /\ UNCHANGED <<apiKey, isRewriting, normalizer, media>>

ClickGenerate == ~GenerateDisabled /\ handleGenerate

\* the caption and the toast after a handler has received result: onChange
\* is called when the result is truthy
ApplyResultAlways(result, outcome, title) ==
  /\ caption' = (IF result = <<>> THEN <<>> ELSE result[1])
  /\ toast' = title

ApplyResult(result, outcome, title) ==
  IF ResultTruthy(result)
  THEN /\ caption' = result[1]
       /\ toast' = title
  ELSE /\ UNCHANGED caption
       /\ toast' = (IF outcome = "failed" THEN "Error" ELSE toast)

\* the rest of handleRewrite, once the call pending[i] has returned
RewriteReturns(i, outcome, content) ==
  /\ i \in 1..Len(pending)
  /\ pending[i] = "rewrite"
  /\ ApplyResult(callOpenRouter(outcome, content), outcome, "Rewritten!")
  /\ isRewriting' = FALSE
  /\ pending' = RemoveAt(pending, i)
  /\ raw' = (IF outcome = "failed" THEN <<>> ELSE content)
  /\ out' = (IF outcome = "failed" THEN <<>> ELSE normalizeResponse(content))
  /\ stage' = outcome
  /\ UNCHANGED <<config, postType, imageUrl, videoUrl, coverImageUrl,
                 articleUrl, carouselUrls, isSubmitting, inflight, run>>
  /\ UNCHANGED <<apiKey, isGenerating, again, media>>

\* the rest of handleGenerate, once the call pending[i] has returned
GenerateReturns(i, outcome, content) ==
  /\ i \in 1..Len(pending)
  /\ pending[i] = "generate"
  /\ ApplyResult(callOpenRouter(outcome, content), outcome, "Generated!")
  /\ isGenerating' = FALSE
  /\ pending' = RemoveAt(pending, i)
  /\ raw' = (IF outcome = "failed" THEN <<>> ELSE content)
  /\ out' = (IF outcome = "failed" THEN <<>> ELSE normalizeResponse(content))
  /\ stage' = outcome
  /\ UNCHANGED <<config, postType, imageUrl, videoUrl, coverImageUrl,
                 articleUrl, carouselUrls, isSubmitting, inflight, run>>
  /\ UNCHANGED <<apiKey, isRewriting, again, media>>

TypeCaption == \E v \in CaptionInputs : setCaption(v)

CallReturns ==
  \E i \in 1..Len(pending), outcome \in FetchOutcomes, content \in ModelReplies :
    \/ RewriteReturns(i, outcome, content)
    \/ GenerateReturns(i, outcome, content)

NextEditor == TypeCaption \/ ClickRewrite \/ ClickGenerate \/ CallReturns

SpecEditor == InitEditor /\ [][NextEditor]_vars

-----------------------------------------------------------------------------
(* The Instagram form with carousel uploads that take time *)

MaxUploads == 2

\* the files of one selection: a file is named by the URL its upload gives
FileSelections == UploadBatches \ {<<>>}

\* the files of a selection whose index is in ok, in selection order: the
\* urls array after the loop over the files
RECURSIVE uploadedUrls(_, _, _)
uploadedUrls(files, ok, i) ==
  IF i > Len(files) THEN <<>>
  ELSE (IF i \in ok THEN <<files[i]>> ELSE <<>>)
         \o uploadedUrls(files, ok, i + 1)

\* handleCarouselFiles up to its first await: the selection is not empty and
\* the upload of its first file starts
SelectCarouselFiles(files) ==
  /\ form = "Instagram" /\ postType = "carousel"
  /\ Len(files) > 0
  /\ Len(uploads) < MaxUploads
  /\ uploads' = Append(uploads, files)
  /\ UNCHANGED <<config, PostState, isSubmitting, inflight, toast, run>>
  /\ UNCHANGED <<editor, normalizer, searchQuery, isSearching, searches,
                 pexelsKey, pexelsResults>>

\* CarouselUploaded that stores the new URLs in place of the list
CarouselUploadedReplaces(i, ok) ==
  /\ i \in 1..Len(uploads)
  /\ ok \subseteq 1..Len(uploads[i])
  /\ Len(carouselUrls) + Cardinality(ok) <= MaxCarousel
  /\ carouselUrls' = uploadedUrls(uploads[i], ok, 1)
  /\ toast' = "Images uploaded"
  /\ uploads' = RemoveAt(uploads, i)
  /\ UNCHANGED <<config, postType, caption, imageUrl, videoUrl,
                 coverImageUrl, articleUrl, isSubmitting, inflight, run>>
  /\ UNCHANGED <<editor, normalizer, searchQuery, isSearching, searches,
                 pexelsKey, pexelsResults>>

\* the rest of handleCarouselFiles for selection i, once the upload of its
\* last file has settled: ok are the files whose upload gave a URL
CarouselUploaded(i, ok) ==
  /\ i \in 1..Len(uploads)
  /\ ok \subseteq 1..Len(uploads[i])
  /\ Len(carouselUrls) + Cardinality(ok) <= MaxCarousel
  /\ carouselUrls' = carouselUrls \o uploadedUrls(uploads[i], ok, 1)
  /\ toast' = "Images uploaded"
  /\ uploads' = RemoveAt(uploads, i)
  /\ UNCHANGED <<config, postType, caption, imageUrl, videoUrl,
                 coverImageUrl, articleUrl, isSubmitting, inflight, run>>
  /\ UNCHANGED <<editor, normalizer, searchQuery, isSearching, searches,
                 pexelsKey, pexelsResults>>

\* an Instagram form that is configured
InitUploads ==
  /\ form = "Instagram"
  /\ webhookUrl = <<"w">>
  /\ businessId = <<"b">>
  /\ postType = DefaultPostType(form)
  /\ caption = <<>>
  /\ imageUrl = <<>>
  /\ videoUrl = <<>>
  /\ coverImageUrl = <<>>
  /\ articleUrl = <<>>
  /\ carouselUrls = <<>>
  /\ isSubmitting = FALSE
  /\ inflight = <<>>
  /\ toast = ""
  /\ run = <<"idle">>
  /\ apiKey = <<>>
  /\ isRewriting = FALSE
  /\ isGenerating = FALSE
  /\ pending = <<>>
  /\ raw = <<>>
  /\ out = <<>>
  /\ again = <<>>
  /\ stage = "none"
  /\ uploads = <<>>
  /\ searchQuery = <<>>
  /\ isSearching = FALSE
  /\ searches = <<>>
  /\ pexelsKey = <<>>
  /\ pexelsResults = <<>>

SelectFiles == \E files \in FileSelections : SelectCarouselFiles(files)

UploadsSettle ==
  \E i \in 1..MaxUploads, ok \in SUBSET (1..MaxCarousel) :
    CarouselUploaded(i, ok)

RemoveImage == \E idx \in 1..(MaxCarousel + 1) : removeCarouselImage(idx)

ChoosePostType == \E t \in IGPostType : setPostType(t)

NextUploads ==
  \/ ChoosePostType
  \/ TypeCaption
  \/ SelectFiles
  \/ UploadsSettle
  \/ RemoveImage
  \/ clearCarousel
  \/ ClickSubmit
  \/ Complete

SpecUploads == InitUploads /\ [][NextUploads]_vars

-----------------------------------------------------------------------------
(* ImageSection: the image search *)

MaxSearches == 2

\* what the query field may hold
QueryInputs == {<<>>, <<" ">>, <<"q">>}

\* import.meta.env.VITE_PEXELS_API_KEY
PexelsKeyInputs == {<<>>, <<"k">>}

\* the photos of a response, as the URLs of their full images
PhotoLists == {<<>>, <<<<"u">>>>, <<<<"u">>, <<"v">>>>}

\* how a search request ends: rejected or not ok, or ok with its photos
SearchOutcomes == {"failed", "answered"}

\* the ImageSection of a new Instagram form, which shows it for an image post
InitSearch ==
  /\ form = "Instagram"
  /\ webhookUrl = <<>>
  /\ businessId = <<>>
  /\ postType = DefaultPostType(form)
  /\ caption = <<>>
  /\ imageUrl = <<>>
  /\ videoUrl = <<>>
  /\ coverImageUrl = <<>>
  /\ articleUrl = <<>>
  /\ carouselUrls = <<>>
  /\ isSubmitting = FALSE
  /\ inflight = <<>>
  /\ toast = ""
  /\ run = <<"idle">>
  /\ apiKey = <<>>
  /\ isRewriting = FALSE
  /\ isGenerating = FALSE
  /\ pending = <<>>
  /\ raw = <<>>
  /\ out = <<>>
  /\ again = <<>>
  /\ stage = "none"
  /\ uploads = <<>>
  /\ searchQuery = <<>>
  /\ isSearching = FALSE
  /\ searches = <<>>
  /\ pexelsKey \in PexelsKeyInputs
  /\ pexelsResults = <<>>

setSearchQuery(q) ==
  /\ ImageSectionShown
  /\ searchQuery' = q
  /\ UNCHANGED <<config, PostState, isSubmitting, inflight, toast, run>>
  /\ UNCHANGED <<editor, normalizer, uploads, isSearching, searches,
                 pexelsKey, pexelsResults>>

\* searchPexels up to its await
searchPexels ==
  /\ IF ~Truthy(trim(searchQuery))
     THEN /\ toast' = "Missing Query"
          /\ UNCHANGED <<isSearching, searches>>
     ELSE IF ~Truthy(pexelsKey)
     THEN /\ toast' = "Missing API Key"
          /\ UNCHANGED <<isSearching, searches>>
     ELSE /\ isSearching' = TRUE
          /\ searches' = Append(searches, searchQuery)
          /\ UNCHANGED toast
  /\ UNCHANGED <<config, PostState, isSubmitting, inflight, run>>
  /\ UNCHANGED <<editor, normalizer, uploads, searchQuery, pexelsKey,
                 pexelsResults>>

\* a click on the search button
ClickSearch ==
  /\ ImageSectionShown
  /\ ~isSearching
  /\ Len(searches) < MaxSearches
  /\ searchPexels

\* the Enter key in the query field
PressEnter ==
  /\ ImageSectionShown
  /\ Len(searches) < MaxSearches
  /\ searchPexels

\* the rest of searchPexels once request i has settled: try, catch, finally
SearchReturns(i, outcome, photos) ==
  /\ i \in 1..Len(searches)
  /\ searches' = RemoveAt(searches, i)
  /\ IF outcome = "failed"
     THEN /\ toast' = "Error"
          /\ UNCHANGED pexelsResults
     ELSE IF Len(photos) > 0
     THEN /\ pexelsResults' = photos
          /\ toast' = "Images Found!"
     ELSE /\ toast' = "No Results"
          /\ UNCHANGED pexelsResults
  /\ isSearching' = FALSE
  /\ UNCHANGED <<config, PostState, isSubmitting, inflight, run>>
  /\ UNCHANGED <<editor, normalizer, uploads, searchQuery, pexelsKey>>

\* a click on result idx of the grid
selectResult(idx) ==
  /\ ImageSectionShown
  /\ idx \in 1..Len(pexelsResults)
  /\ imageUrl' = pexelsResults[idx]
  /\ toast' = "Selected"
  /\ UNCHANGED <<config, postType, caption, videoUrl, coverImageUrl,
                 articleUrl, carouselUrls, isSubmitting, inflight, run>>
  /\ UNCHANGED <<editor, normalizer, media>>

\* the 'Clear results' button under the grid
clearResults ==
  /\ ImageSectionShown
  /\ Len(pexelsResults) > 0
  /\ pexelsResults' = <<>>
  /\ UNCHANGED <<config, PostState, isSubmitting, inflight, toast, run>>
  /\ UNCHANGED <<editor, normalizer, uploads, searchQuery, isSearching,
                 searches, pexelsKey>>

TypeQuery == \E q \in QueryInputs : setSearchQuery(q)

SearchSettles ==
  \E i \in 1..MaxSearches, outcome \in SearchOutcomes, photos \in PhotoLists :
    SearchReturns(i, outcome, photos)

PickResult == \E idx \in 1..2 : selectResult(idx)

NextSearch ==
  \/ TypeQuery
  \/ ClickSearch
  \/ PressEnter
  \/ SearchSettles
  \/ PickResult
  \/ clearResults

SpecSearch == InitSearch /\ [][NextSearch]_vars

-----------------------------------------------------------------------------
(* Vocabulary of the properties *)

LinkedIn == {"IndexA", "IndexB"}

DefaultPostState(f) == <<DefaultPostType(f), <<>>, <<>>, <<>>, <<>>, <<>>, <<>>>>

\* a string field is present when something is left after trimming
Present(s) == trim(s) # <<>>

ConfigAbsent ==
  \/ webhookUrl = <<>>
  \/ form = "Instagram" /\ businessId = <<>>

\* a step of handleSubmit that went past its entry: it rejected the call or
\* it sent a request
SubmitStep ==
  /\ Len(inflight') >= Len(inflight)
  /\ run' # run \/ Len(inflight') > Len(inflight)

\* a step in which a request is sent
DispatchStep == Len(inflight') > Len(inflight)

\* a step in which a request completes
CompletionStep == Len(inflight') < Len(inflight)

\* the media keys the table of post types allows and requires
LinkedInMediaKeys == {"image_url", "video_url", "article_url"}

LinkedInAllowed(t) ==
  CASE t = "text" -> {}
    [] t = "article" -> {"article_url"}
    [] t = "article-image" -> {"image_url"}
    [] t = "image" -> {"image_url"}
    [] t = "video" -> {"video_url"}

IGMediaKeys == {"image_url", "video_url", "cover_image_url", "image_urls"}

IGRequiredKeys(t) ==
  CASE t = "image" -> {"image_url"}
    [] t = "story_image" -> {"image_url"}
    [] t = "story_video" -> {"video_url"}
    [] t = "reel" -> {"video_url"}
    [] t = "carousel" -> {"image_urls"}

IGOptionalKeys(t) == IF t = "reel" THEN {"cover_image_url"} ELSE {}

\* the fields the table requires of an Instagram post are present
IGRequiredPresent ==
  CASE postType = "image" -> Present(imageUrl) /\ Present(caption)
    [] postType = "story_image" -> Present(imageUrl)
    [] postType = "story_video" -> Present(videoUrl)
    [] postType = "reel" -> Present(videoUrl) /\ Present(caption)
    [] postType = "carousel" -> Present(caption) /\ Len(carouselUrls) >= 2

\* the fields the table requires of a LinkedIn post are present
LinkedInRequiredPresent ==
  /\ Present(caption)
  /\ postType \in {"image", "article-image"} => Present(imageUrl)
  /\ postType = "article" => Present(articleUrl)

\* some required string field of an Instagram post is made of whitespace only
IGRequiredBlank ==
  \/ postType \in {"image", "reel", "carousel"}
       /\ caption # <<>> /\ trim(caption) = <<>>
  \/ postType \in {"image", "story_image"}
       /\ imageUrl # <<>> /\ trim(imageUrl) = <<>>
  \/ postType \in {"story_video", "reel"}
       /\ videoUrl # <<>> /\ trim(videoUrl) = <<>>

-----------------------------------------------------------------------------
(* Properties *)

\* C1: at most one webhook request of a form is outstanding, and while one
\* is outstanding the submit button is disabled, so that no second
\* handleSubmit starts.
C1_OneRequestInFlight ==
  /\ Len(inflight) <= 1
  /\ Len(inflight) = 1 => isSubmitting

\* a request is outstanding while the form in its current state would pass
\* every check of handleSubmit
C1_Witness ==
  /\ Len(inflight) = 1
  /\ isSubmitting
  /\ ~ConfigAbsent
  /\ IF form = "Instagram" THEN IGRequiredPresent ELSE LinkedInRequiredPresent

\* C2: the body of every request of a LinkedIn form carries image_url,
\* video_url or article_url only when the field is required or optional for
\* the post type the body was built for.
C2_LinkedInKeysOfType ==
  form \in LinkedIn =>
    \A i \in 1..Len(inflight) :
      (DOMAIN inflight[i] \cap LinkedInMediaKeys)
        \subseteq LinkedInAllowed(inflight[i].post_type)

\* C3: the body of every request of the Instagram form holds, among
\* image_url, video_url, cover_image_url and image_urls, exactly the keys of
\* the post type it was built for, cover_image_url being optional for a reel.
C3_InstagramKeysOfType ==
  form = "Instagram" =>
    \A i \in 1..Len(inflight) :
      LET b == inflight[i]
          keys == DOMAIN b \cap IGMediaKeys
      IN /\ IGRequiredKeys(b.post_type) \subseteq keys
         /\ keys \subseteq
              IGRequiredKeys(b.post_type) \cup IGOptionalKeys(b.post_type)

\* a story_video request is outstanding while imageUrl, coverImageUrl and
\* carouselUrls still hold values of earlier selections
C3_Witness ==
  /\ form = "Instagram"
  /\ Len(inflight) = 1
  /\ inflight[1].post_type = "story_video"
  /\ postType = "story_video"
  /\ imageUrl # <<>>
  /\ coverImageUrl # <<>>
  /\ carouselUrls # <<>>

\* C4: in the Instagram form canSubmit is true exactly when every field the
\* table requires of the current post type is present.
C4_CanSubmitIffRequired ==
  form = "Instagram" => (canSubmit <=> IGRequiredPresent)

\* C5: a LinkedIn form sends a request only when every field the table
\* requires of the current post type is present.
C5_NoRequestWithoutRequired ==
  [][(form \in LinkedIn /\ DispatchStep) => LinkedInRequiredPresent]_vars

\* C6: in the Instagram form canSubmit is false when a required string field
\* consists only of whitespace.
C6_WhitespaceIsEmpty ==
  (form = "Instagram" /\ IGRequiredBlank) => ~canSubmit

\* C7: the completion of a request with a 2xx status resets the whole
\* PostState to its defaults and ends the run idle, validating, building,
\* dispatching, succeeded, idle.
C7_SuccessResets ==
  [][(CompletionStep /\ toast' = "Success!") =>
       /\ PostState' = DefaultPostState(form)
       /\ run' = RunSucceeded
       /\ ~isSubmitting']_vars

\* a text post of the second LinkedIn revision has just succeeded
C7_Witness ==
  /\ form = "IndexB"
  /\ run = RunSucceeded
  /\ toast = "Success!"
  /\ inflight = <<>>
  /\ PostState = DefaultPostState(form)

\* C8: the completion of a request with a failure changes no field of
\* PostState.
C8_FailureKeepsState ==
  [][(CompletionStep /\ toast' = "Error") => PostState' = PostState]_vars

\* a request has just failed and the same post can be submitted again
C8_Witness ==
  /\ run = RunFailed
  /\ toast = "Error"
  /\ inflight = <<>>
  /\ ~isSubmitting
  /\ ~ConfigAbsent
  /\ caption = <<"a">>
  /\ postType # DefaultPostType(form)
  /\ IF form = "Instagram" THEN canSubmit ELSE LinkedInRequiredPresent

\* C9: a call of InstagramForm.handleSubmit with configuration present and
\* canSubmit false sends no request, leaves isSubmitting false and PostState
\* unchanged, and returns to idle straight from validating.
C9_InvalidReturnsToIdle ==
  [][(form = "Instagram" /\ ~ConfigAbsent /\ ~canSubmit /\ SubmitStep) =>
       /\ Len(inflight') = Len(inflight)
       /\ ~isSubmitting'
       /\ PostState' = PostState
       /\ run' = RunRejected]_vars

\* handleSubmit of the Instagram form has just rejected an incomplete post
C9_Witness ==
  /\ form = "Instagram"
  /\ ~ConfigAbsent
  /\ ~canSubmit
  /\ toast = "Incomplete"
  /\ run = RunRejected
  /\ inflight = <<>>
  /\ ~isSubmitting

\* C10: a call of handleSubmit while the webhook URL or, for Instagram, the
\* business-account id is absent sends no request, leaves isSubmitting false
\* and PostState unchanged.
C10_NoConfigNoRequest ==
  [][(ConfigAbsent /\ SubmitStep) =>
       /\ Len(inflight') = Len(inflight)
       /\ ~isSubmitting'
       /\ PostState' = PostState]_vars

\* handleSubmit of the Instagram form has just rejected a complete post for
\* the missing business-account id
C10_Witness ==
  /\ form = "Instagram"
  /\ webhookUrl # <<>>
  /\ businessId = <<>>
  /\ canSubmit
  /\ toast = "Missing Instagram Business ID"
  /\ run = RunRejected
  /\ inflight = <<>>
  /\ ~isSubmitting

\* a step in which the failure of a request is reported
FailureStep ==
  /\ toast' = "Error"
  /\ run' # run
  /\ Len(run') >= 2
  /\ run'[Len(run') - 1] = "failed"

\* C11: a request is added only by a handleSubmit that was started while no
\* submission was under way, and it adds exactly one; a step that reports a
\* failure leaves one request fewer and sends none.
C11_OnePostNoRetry ==
  [][/\ (inflight' # inflight /\ Len(inflight') >= Len(inflight)) =>
          /\ inflight' = Append(inflight, inflight'[Len(inflight')])
          /\ ~isSubmitting
          /\ run' = RunDispatching
     /\ FailureStep => Len(inflight') = Len(inflight) - 1]_vars

\* the post was sent again by the user after a reported failure
C11_Witness ==
  /\ toast = "Error"
  /\ run = RunDispatching
  /\ Len(inflight) = 1
  /\ isSubmitting

\* C12: whenever a request is outstanding the form comes back to idle, no
\* request outstanding and isSubmitting false, given that requests settle.
C12_ReturnsToIdle ==
  (Len(inflight) > 0) ~> (inflight = <<>> /\ ~isSubmitting)

\* a submission has come back to idle, on success or on failure
C12_Witness ==
  /\ run \in {RunSucceeded, RunFailed}
  /\ inflight = <<>>
  /\ ~isSubmitting
  /\ toast \in {"Success!", "Error"}

\* C13: the body of every request holds the keys node_type, post_type and
\* text, post_type being the post type selected when it was sent.
C13_DiscriminatorsAndText ==
  [][DispatchStep =>
       LET b == inflight'[Len(inflight')]
       IN /\ {"node_type", "post_type", "text"} \subseteq DOMAIN b
          /\ b.post_type = postType]_vars

-----------------------------------------------------------------------------
(* Properties of normalizeResponse, under SpecNorm *)

\* the characters of s
Chars(s) == {s[k] : k \in 1..Len(s)}

\* C14: normalizeResponse is idempotent: normalizing a result gives the
\* result again, for every input.
C14_Idempotent ==
  stage = "twice" => again = out

\* C15: the input 'Here it is: "Ship fast, learn faster."' yields
\* 'Ship fast, learn faster.', without the preamble and without the quotes.
C15_PreambleExample ==
  (stage # "raw" /\ raw = PreambleExample) => out = PreambleExpected

\* C16: the input '**Option 1:** Great post about teamwork.', a blank line,
\* 'Option 2: ...' yields the body of the first alternative alone,
\* 'Great post about teamwork.'.
C16_OptionsExample ==
  (stage # "raw" /\ raw = OptionsExample) => out = OptionsExpected

C16_Witness ==
  /\ stage = "once"
  /\ raw = OptionsExample
  /\ Len(out) = 26

\* C17: for every input the result neither begins nor ends with a double
\* quote, a single quote or a grave accent.
C17_NoWrappingQuotes ==
  (stage # "raw" /\ out # <<>>) =>
    /\ out[1] \notin {"\"", "'", "grave"}
    /\ out[Len(out)] \notin {"\"", "'", "grave"}

\* C18: for every input the result contains no label made of the word
\* Option in any letter case, optional whitespace, digits, optional
\* whitespace and a colon.
C18_OptionFree ==
  stage # "raw" => \A i \in 1..Len(out) : LabelEnd(out, i) = 0

\* C19: for every input the result is a single line: it contains no newline
\* character (line feed) and neither begins nor ends with whitespace.
C19_SingleLine ==
  stage # "raw" =>
    /\ "\n" \notin Chars(out)
    /\ out # <<>> =>
         /\ out[1] \notin {" ", "\t", "\n", "\r"}
         /\ out[Len(out)] \notin {" ", "\t", "\n", "\r"}

C19_Witness ==
  /\ stage = "once"
  /\ "\n" \in Chars(raw)
  /\ raw[1] = " "
  /\ raw[Len(raw)] \in {" ", "\n"}
  /\ out # <<>>

-----------------------------------------------------------------------------
(* Properties of the TextEditor, under SpecEditor *)

\* a step in which a rewrite or generate call returns to its handler
ReturnStep == Len(pending') < Len(pending)

\* C20: when a rewrite or generate request fails, or its normalized result
\* is the empty string, the caption is left as it was; a returning call
\* changes the caption only to a non-empty result.
C20_DegenerateKeepsCaption ==
  [][ReturnStep =>
       /\ (stage' = "failed" \/ out' = <<>>) => caption' = caption
       /\ caption' # caption => (caption' = out' /\ out' # <<>>)]_vars

C20_Witness ==
  /\ stage = "replied"
  /\ raw # <<>>
  /\ out = <<>>
  /\ caption = <<"a">>
  /\ pending = <<>>

-----------------------------------------------------------------------------
(* Properties of a form with a request in flight, under Spec *)

\* an edit that leaves the submission as it is
QuietEdit == Edit /\ UNCHANGED <<isSubmitting, inflight, run>>

\* C21: while a webhook request is in flight only the submit action is
\* blocked: no new request can be sent, and every edit of the caption, of
\* the post type and of the URL fields rendered for the type is enabled and
\* takes effect.
C21_OnlySubmitBlocked ==
  (inflight # <<>> /\ isSubmitting) =>
    /\ ~ENABLED (Next /\ Len(inflight') > Len(inflight))
    /\ \A v \in CaptionInputs : ENABLED (QuietEdit /\ caption' = v)
    /\ \A t \in PostTypesOf(form) : ENABLED (QuietEdit /\ postType' = t)
    /\ ImageSectionShown =>
         \A v \in ImageSectionUrls : ENABLED (QuietEdit /\ imageUrl' = v)
    /\ VideoInputShown =>
         \A v \in UrlInputs : ENABLED (QuietEdit /\ videoUrl' = v)
    /\ (form = "Instagram" /\ postType = "reel") =>
         \A v \in ImageSectionUrls :
           ENABLED (QuietEdit /\ coverImageUrl' = v)
    /\ (form = "IndexB" /\ postType = "article") =>
         \A v \in UrlInputs : ENABLED (QuietEdit /\ articleUrl' = v)

\* a request is in flight and the caption and the post type have been edited
\* since it was sent
C21_Witness ==
  /\ isSubmitting
  /\ Len(inflight) = 1
  /\ inflight[1].post_type # postType
  /\ "text" \in DOMAIN inflight[1]
  /\ inflight[1].text # caption
  /\ run = RunDispatching

\* C22: the body of an Instagram request holds the key cover_image_url, with
\* the value of coverImageUrl, exactly when the post type is reel and
\* coverImageUrl is not empty; for every other type the key is absent
\* whatever coverImageUrl holds.
C22_CoverOnlyForReel ==
  [][(DispatchStep /\ form = "Instagram") =>
       LET b == inflight'[Len(inflight')]
       IN /\ ("cover_image_url" \in DOMAIN b)
               <=> (postType = "reel" /\ coverImageUrl # <<>>)
          /\ "cover_image_url" \in DOMAIN b
               => b.cover_image_url = coverImageUrl]_vars

\* a story video sent while a cover image of an earlier reel is still held
C22_Witness ==
  /\ form = "Instagram"
  /\ Len(inflight) = 1
  /\ postType = "story_video"
  /\ inflight[1].post_type = "story_video"
  /\ coverImageUrl # <<>>
  /\ "cover_image_url" \notin DOMAIN inflight[1]

-----------------------------------------------------------------------------
(* Line selection of normalizeResponse, under SpecNorm *)

\* the line starts with '*', '-' or digits and '.', followed by whitespace
StartsWithListMarker(l) ==
  \/ /\ Len(l) >= 2
     /\ l[1] \in {"*", "-"}
     /\ l[2] \in {" ", "\t", "\n", "\r"}
  \/ \E n \in 1..Len(l) :
       /\ \A k \in 1..n : l[k] \in Digits
       /\ Len(l) >= n + 2
       /\ l[n + 1] = "."
       /\ l[n + 2] \in {" ", "\t", "\n", "\r"}

\* the line starts with the word Option, in any letter case, and a number
StartsWithOption(l) ==
  \E n \in 7..Len(l) :
    /\ \A k \in 1..6 : Lower(l[k]) = <<"o", "p", "t", "i", "o", "n">>[k]
    /\ \A k \in 7..(n - 1) : l[k] \in {" ", "\t", "\n", "\r"}
    /\ l[n] \in Digits

\* the non-empty lines of the first paragraph of the input, trimmed
ParagraphLines ==
  TrimmedNonEmpty(SplitLines(
    FirstParagraph(StripPreamble(StripLabels(StripBoldLabels(raw, 1), 1))),
    1, <<>>))

\* line i of ParagraphLines is neither a list item nor an option
PlainLine(i) ==
  /\ ~StartsWithListMarker(ParagraphLines[i])
  /\ ~StartsWithOption(ParagraphLines[i])

\* C23: within the first paragraph the result comes from the first non-empty
\* line that starts neither with a list marker nor with 'Option N'; from the
\* first line when every line starts so; and it is the empty string when
\* the paragraph has no non-empty line.
C23_LineSelection ==
  stage # "raw" =>
    LET n == Len(ParagraphLines)
    IN /\ n = 0 => out = <<>>
       /\ \A i \in 1..n :
            (PlainLine(i) /\ \A j \in 1..(i - 1) : ~PlainLine(j))
              => out = FinalStrip(ParagraphLines[i])
       /\ (n > 0 /\ \A i \in 1..n : ~PlainLine(i))
            => out = FinalStrip(ParagraphLines[1])

\* a numbered item followed by a plain line: the plain line is the result
C23_Witness ==
  /\ stage = "once"
  /\ raw = <<"1", ".", " ", "a", "\n", "b">>
  /\ out = <<"b">>

\* the value of key k in body b is the value v of the field it is built from
BuiltFrom(b, k, v) == k \in DOMAIN b => b[k] = v

\* C25: the body of a request is fixed when handleSubmit is invoked: it is
\* built from the PostState of that moment, and no later step, an edit
\* least of all, changes a body that is in flight; a body leaves the
\* requests in flight only when its request completes.
C25_BodyFixedAtSubmit ==
  [][/\ DispatchStep =>
          LET b == inflight'[Len(inflight')]
          IN /\ inflight' = Append(inflight, b)
             /\ BuiltFrom(b, "post_type", postType)
             /\ BuiltFrom(b, "text", caption)
             /\ BuiltFrom(b, "image_url", imageUrl)
             /\ BuiltFrom(b, "video_url", videoUrl)
             /\ BuiltFrom(b, "cover_image_url", coverImageUrl)
             /\ BuiltFrom(b, "article_url", articleUrl)
             /\ BuiltFrom(b, "image_urls", carouselUrls)
     /\ CompletionStep =>
          \E i \in 1..Len(inflight) :
            inflight' = SubSeq(inflight, 1, i - 1)
                          \o SubSeq(inflight, i + 1, Len(inflight))
     /\ (~DispatchStep /\ ~CompletionStep) => inflight' = inflight]_vars

\* an image post in flight whose image URL has been edited since it was sent
C25_Witness ==
  /\ form = "Instagram"
  /\ Len(inflight) = 1
  /\ inflight[1].post_type = "image"
  /\ postType = "image"
  /\ inflight[1].image_url # imageUrl
  /\ inflight[1].text # caption

\* C26: isSubmitting is true in every state in which a request of the form
\* is outstanding and false in every state in which none is; it is set in
\* the step that sends the request and cleared only in a step in which a
\* request completes.
C26_FlagIffOutstanding ==
  /\ [](isSubmitting <=> (inflight # <<>>))
  /\ [][/\ (~isSubmitting /\ isSubmitting') => DispatchStep
        /\ (isSubmitting /\ ~isSubmitting') => CompletionStep]_vars

\* a request of the second LinkedIn page is outstanding
C26_Witness ==
  /\ form = "IndexB"
  /\ isSubmitting
  /\ Len(inflight) = 1
  /\ inflight[1].post_type = "article"

-----------------------------------------------------------------------------
(* Properties of the form with uploads in flight, under SpecUploads *)

\* a step in which a successful submission resets the form
ResetStep == run' # run /\ run' = RunSucceeded

\* an upload that was started earlier settles and a field of the post changes
Repopulate ==
  /\ NextUploads
  /\ Len(uploads') < Len(uploads)
  /\ <<caption, imageUrl, videoUrl, carouselUrls>>'
       # <<caption, imageUrl, videoUrl, carouselUrls>>

\* C24: once a successful submission has reset the post, the completion of
\* an asynchronous operation that was started before the reset does not put
\* a value back into caption, imageUrl, videoUrl or carouselUrls: in the
\* state the reset leaves, no settling operation can change these fields.
C24_NoRepopulation ==
  [][ResetStep => ~(ENABLED Repopulate)']_vars

\* a is b with some of its elements left out, the rest in the order of b
IsSubsequence(a, b) ==
  \E f \in [1..Len(a) -> 1..Len(b)] :
    /\ \A k \in 1..Len(a) : a[k] = b[f[k]]
    /\ \A k \in 1..(Len(a) - 1) : f[k] < f[k + 1]

\* s without its element at idx
Without(s, idx) == SubSeq(s, 1, idx - 1) \o SubSeq(s, idx + 1, Len(s))

\* a step in which the uploads of a selection have all settled
UploadStep == Len(uploads') < Len(uploads)

\* C27: carousel updates are neither lost nor reordered.  When the uploads
\* of a selection have settled, carouselUrls is its value of that moment
\* followed by uploaded URLs of the selection in selection order;
\* removeCarouselImage(idx) removes the element at idx and keeps the order
\* of the rest; 'Clear All' empties the list; nothing else but the reset
\* after a success changes the list; and image_urls of a carousel request is
\* carouselUrls in order.
C27_CarouselOrder ==
  [][/\ UploadStep =>
          \E i \in 1..Len(uploads) :
            /\ uploads' = Without(uploads, i)
            /\ Len(carouselUrls') >= Len(carouselUrls)
            /\ SubSeq(carouselUrls', 1, Len(carouselUrls)) = carouselUrls
            /\ IsSubsequence(SubSeq(carouselUrls', Len(carouselUrls) + 1,
                                    Len(carouselUrls')), uploads[i])
     /\ \A idx \in 1..Len(carouselUrls) :
          removeCarouselImage(idx) =>
            carouselUrls' = Without(carouselUrls, idx)
     /\ clearCarousel => carouselUrls' = <<>>
     /\ carouselUrls' # carouselUrls =>
          \/ UploadStep
          \/ \E idx \in 1..Len(carouselUrls) : removeCarouselImage(idx)
          \/ clearCarousel
          \/ ResetStep
     /\ (DispatchStep /\ postType = "carousel") =>
          inflight'[Len(inflight')].image_urls = carouselUrls]_vars

\* the uploads of one selection have settled while those of another are
\* still running
C27_Witness ==
  /\ postType = "carousel"
  /\ Len(uploads) = 1
  /\ Len(carouselUrls) = 1
  /\ toast = "Images uploaded"
  /\ carouselUrls[1] # uploads[1][1]

-----------------------------------------------------------------------------
(* Properties of the image search, under SpecSearch *)

\* C28: while a search is in flight, isSearching true, no second search
\* request is issued, by the button or by the Enter key; and isSearching is
\* false again when the request has completed, with or without photos.
C28_OneSearchAtATime ==
  [][/\ isSearching => Len(searches') <= Len(searches)
     /\ Len(searches') < Len(searches) => ~isSearching']_vars

-----------------------------------------------------------------------------
(* Concurrent requests of the TextEditor, under SpecEditor *)

\* the kinds of the requests that have not settled
PendingKinds == {pending[k] : k \in 1..Len(pending)}

\* C29: a rewrite and a generate request can be in flight together, each
\* held back by its own flag alone; a flag is true exactly while its own
\* request is in flight and is false again when that request returns, with
\* or without a result; and a request that returns with a non-empty result,
\* the last one above all, leaves that result in the caption whatever the
\* user typed in between.
C29_IndependentRequests ==
  /\ [](/\ isRewriting <=> ("rewrite" \in PendingKinds)
        /\ isGenerating <=> ("generate" \in PendingKinds)
        /\ (isRewriting /\ ~isGenerating /\ apiKey # <<>>) =>
             ENABLED (ClickGenerate /\ isRewriting' /\ isGenerating')
        /\ (isGenerating /\ ~isRewriting /\ apiKey # <<>>
              /\ caption \in {<<"a">>}) =>
             ENABLED (ClickRewrite /\ isRewriting' /\ isGenerating'))
  /\ [][ReturnStep =>
          /\ \E i \in 1..Len(pending) :
               /\ pending' = Without(pending, i)
               /\ pending[i] = "rewrite" =>
                    (~isRewriting' /\ isGenerating' = isGenerating)
               /\ pending[i] = "generate" =>
                    (~isGenerating' /\ isRewriting' = isRewriting)
          /\ (stage' = "replied" /\ out' # <<>>) => caption' = out']_vars

\* both requests are in flight and the user has emptied the caption since
C29_Witness ==
  /\ isRewriting
  /\ isGenerating
  /\ Len(pending) = 2
  /\ caption = <<>>

====
